---- MODULE Spec2Model ----
(***************************************************************************)
(* Publishing orchestration of the social backend: the publish_post and    *)
(* process_scheduled_posts Celery tasks (backend/social/tasks.py) and the  *)
(* publish / schedule / cancel request handlers (backend/social/views.py), *)
(* for one SocialPost and its SocialPostTarget rows.                       *)
(***************************************************************************)
EXTENDS Integers, Sequences, FiniteSets, TLC

\* ---------------------------------------------------------------- bounds
MaxTasks == 2        \* publish_post task instances ever queued
MaxPosted == 2       \* remote posts the platform accepts per account
MaxRequests == 2     \* requests the handlers of views.py serve
MaxFaults == 0       \* exceptions the database raises on target.save()
MaxOutages == 0      \* exceptions the broker raises on apply_async
RetryTasks == 1      \* publish requests, one task each, under a failing broker
MaxMedia == 1        \* media files of the post
ScenarioTasks == 1   \* requests, and publish_post tasks, of a single dispatch
CancelRequests == 3  \* requests of a publish, schedule, cancel sequence
RaceTasks == 2       \* publish_post tasks that race to create one Target
MaxSyncs == 2        \* analytics runs
MaxMetric == 1       \* largest value of a metric the platform reports
MaxItems == 2        \* media files of a post published through containers
MaxLatency == 2      \* seconds a status request of a container takes
MaxTokens == 2       \* access tokens an account is given, one after the other

\* ------------------------------------------------------ program constants
BeatPeriod == 60         \* settings/base.py: 'schedule': 60.0
TaskMaxRetries == 3      \* @shared_task(bind=True, max_retries=3)
RetryBase == 60          \* countdown=60 * (2 ** self.request.retries)
TargetMaxRetries == 3    \* SocialPostTarget.max_retries default
MaxWaitSeconds == 60     \* _wait_for_instagram_container(..., max_wait_seconds=60)
PollSleep == 2           \* time.sleep(2)
SyncMaxRetries == 2      \* @shared_task(bind=True, max_retries=2)

Accounts == {"fb", "ig", "li", "tw"}
AccountOrder == <<"fb", "ig", "li", "tw">>
TaskIds == 1..MaxTasks
None == -1

\* Instants are kept as offsets from the current instant, timezone.now();
\* an instant that has passed is kept as the current one.
now == 0

Platform(a) ==
    IF a = "fb" THEN "facebook" ELSE IF a = "ig" THEN "instagram"
    ELSE IF a = "li" THEN "linkedin" ELSE "twitter"

\* the platforms publish_post has an adapter for (tasks.py lines 57-68)
HasAdapter(a) == Platform(a) \in {"facebook", "instagram", "linkedin"}

\* the accounts of these platforms
Supported == {a \in Accounts : HasAdapter(a)}

\* platform_post_id = f"mock_{account.platform.name}_{post_id}"
MockPostId == -2

ErrorKinds == {"validation", "auth", "rejection", "transient"}
Outcomes == {"ok"} \cup ErrorKinds

VARIABLES post, accounts, targets, tasks, posted, quota, handoffs, gateway, sync

vars == <<post, accounts, targets, tasks, posted, quota, handoffs, gateway, sync>>

\* ------------------------------------------------------------------ rows
\* the SocialAnalytics row of a target (OneToOneField, on_delete=CASCADE):
\* rows is the number of rows, reach and likes stand for the canonical fields
\* aged: created_at is more than 365 days back
NoAnalytics == [rows |-> 0, reach |-> 0, likes |-> 0, aged |-> FALSE]

\* what the platform reports for a post
Metrics == [reach : 0..MaxMetric, likes : 0..MaxMetric]

\* rows: the number of rows of the table for this post and this account
NoTarget ==
    [status |-> "absent", platform_post_id |-> 0, error_message |-> "",
     retry_count |-> 0, max_retries |-> TargetMaxRetries, next_retry_at |-> None,
     rows |-> 0, analytics |-> NoAnalytics]

NewTarget(st) == [NoTarget EXCEPT !.status = st, !.rows = 1]

\* no SocialAccount instance loaded
NoAccount == [status |-> "none", posting_enabled |-> FALSE, access_token |-> 0]

\* target and account are the model instances the task holds in memory
IdleTask ==
    [pc |-> "idle", accts |-> <<>>, idx |-> 0, published_count |-> 0,
     failed_count |-> 0, retries |-> 0, eta |-> None, countdown |-> 0,
     post |-> [scheduled_at |-> None, published_at |-> None, media_files |-> 0],
     target |-> NoTarget, account |-> NoAccount]

\* the account ids of a set, in the queryset's order
RECURSIVE OrderedFrom(_, _)
OrderedFrom(S, i) ==
    IF i > Len(AccountOrder) THEN <<>>
    ELSE (IF AccountOrder[i] \in S THEN <<AccountOrder[i]>> ELSE <<>>)
         \o OrderedFrom(S, i + 1)

Ordered(S) == OrderedFrom(S, 1)

\* SocialAccount.objects.filter(id__in=..., status='connected', posting_enabled=True)
ValidAccounts(req) ==
    {a \in req \cap Accounts :
        accounts[a].status = "connected" /\ accounts[a].posting_enabled}

\* an INSERT into a table without the unique constraint
CreateUnconstrained(tg, a, st) ==
    [tg EXCEPT ![a] = [NewTarget(st) EXCEPT !.rows = tg[a].rows + 1]]

\* the INSERT of get_or_create: unique_together = ['post', 'account'] refuses
\* a second row (IntegrityError), and get_or_create then reads the first one
Create(tg, a, st) ==
    IF tg[a].rows = 0 THEN [tg EXCEPT ![a] = NewTarget(st)] ELSE tg

\* SocialPostTarget.objects.get_or_create(post, account, defaults={'status': st})
GetOrCreate(tg, a, st) ==
    IF tg[a].status = "absent" THEN Create(tg, a, st) ELSE tg

\* the call of an adapter that publishes through containers: calls are the
\* requests sent so far, children the child containers created, parent the
\* number of children the parent container references, elapsed the seconds
\* since the wait for the container began, polls the status requests sent,
\* task the publish_post task that waits for the result
IdleGateway ==
    [pc |-> "idle", task |-> 0, adapter |-> "none", media |-> <<>>, comment |-> FALSE,
     calls |-> <<>>, children |-> 0, parent |-> None, elapsed |-> 0, polls |-> 0,
     ready |-> FALSE, timed_out |-> FALSE, result |-> "none", post_id |-> 0,
     commented |-> "none"]

\* the last run of sync_analytics_for_account: the account, whether the
\* platform grants it insights (a page or business account), the results
\* dictionary of sync_account_analytics, and what the task did with it;
\* loaded is the SocialAccount instance a run holds between its
\* SocialAccount.objects.get and its account.save(), loaded_id its account
IdleSync ==
    [account |-> "none", access |-> FALSE, insights_updated |-> FALSE,
     raised |-> FALSE, retries |-> 0, loaded_id |-> "none", loaded |-> NoAccount]

FreeTask == {t \in TaskIds : tasks[t].pc = "idle"}

\* publish_post.delay(post_id, account_ids)
Delay(t, ids) ==
    [tasks EXCEPT ![t] = [IdleTask EXCEPT !.pc = "queued", !.accts = ids, !.eta = now]]

\* what the environment may still do: queue a task, send a request, raise
Spend(what) == quota[what] > 0 /\ quota' = [quota EXCEPT ![what] = @ - 1]

\* ------------------------------------------------------------------ Init
Init ==
    /\ \E m \in 0..MaxMedia :
         post = [status |-> "draft", scheduled_at |-> None, published_at |-> None,
                 media_files |-> m]
    /\ accounts = [a \in Accounts |-> [status |-> "connected", posting_enabled |-> TRUE,
                                      access_token |-> 1]]
    /\ targets = [a \in Accounts |-> NoTarget]
    /\ tasks = [t \in TaskIds |-> IdleTask]
    /\ posted = [a \in Accounts |-> 0]
    /\ quota = [tasks |-> MaxTasks, requests |-> MaxRequests, faults |-> MaxFaults,
                outages |-> MaxOutages, syncs |-> MaxSyncs]
    /\ handoffs = 0
    /\ gateway = IdleGateway
    /\ sync = IdleSync

\* an instant, one beat period later
Age(at) == IF at = None THEN None ELSE IF at > now THEN at - BeatPeriod ELSE now

\* the clock advances by one beat period
Tick ==
    /\ post' = [post EXCEPT !.scheduled_at = Age(@), !.published_at = Age(@)]
    /\ tasks' = [t \in TaskIds |->
                   [tasks[t] EXCEPT !.eta = Age(@),
                                    !.post = [@ EXCEPT !.scheduled_at = Age(@),
                                                       !.published_at = Age(@)]]]
    /\ UNCHANGED <<accounts, targets, posted, quota, handoffs, gateway, sync>>

\* ------------------------------------------------------ request handlers

\* SocialPostViewSet.update / partial_update: edit the content of a post that
\* is not published; m is the number of media files after the edit
ViewUpdate(m) ==
    /\ post.status \notin {"published", "partially_published"}
    /\ post' = [post EXCEPT !.media_files = m]
    /\ Spend("requests")
    /\ UNCHANGED <<accounts, targets, tasks, posted, handoffs, gateway, sync>>

\* SocialPostViewSet.publish: queue a publish_post task for the valid accounts
ViewPublish(req) ==
    /\ post.status \notin {"published", "partially_published"}
    /\ ValidAccounts(req) # {}
    /\ \E t \in FreeTask :
         /\ t = CHOOSE u \in FreeTask : \A v \in FreeTask : u <= v
         /\ tasks' = Delay(t, Ordered(ValidAccounts(req)))
    /\ targets' = [a \in Accounts |->
                     IF a \in ValidAccounts(req) THEN GetOrCreate(targets, a, "pending")[a]
                     ELSE targets[a]]
    /\ quota.requests > 0 /\ quota.tasks > 0
    /\ quota' = [quota EXCEPT !.requests = @ - 1, !.tasks = @ - 1]
    /\ UNCHANGED <<post, accounts, posted, handoffs, gateway, sync>>

\* SocialPostViewSet.schedule: scheduled_at must be in the future
ViewSchedule(req, at) ==
    /\ post.status \notin {"published", "partially_published"}
    /\ at > now
    /\ ValidAccounts(req) # {}
    /\ post' = [post EXCEPT !.status = "scheduled", !.scheduled_at = at]
    /\ targets' = [a \in Accounts |->
                     IF a \in ValidAccounts(req) THEN GetOrCreate(targets, a, "pending")[a]
                     ELSE targets[a]]
    /\ Spend("requests")
    /\ UNCHANGED <<accounts, tasks, posted, gateway, sync>>
    /\ handoffs' = 0

\* post.targets.update(status='cancelled')
CancelAll(tg) ==
    [a \in Accounts |-> IF tg[a].status = "absent" THEN tg[a]
                        ELSE [tg[a] EXCEPT !.status = "cancelled"]]

\* SocialPostViewSet.cancel
ViewCancel ==
    /\ post.status = "scheduled"
    /\ post' = [post EXCEPT !.status = "draft", !.scheduled_at = None]
    /\ targets' = CancelAll(targets)
    /\ Spend("requests")
    /\ UNCHANGED <<accounts, tasks, posted, handoffs, gateway, sync>>

\* The failures each adapter is exercised with: the Facebook adapter raises
\* on an error response or a timeout (raise_for_status), the Instagram adapter
\* refuses a post without media, detects an invalid token and passes on any
\* other refusal of the platform, the LinkedIn adapter gets a response other than 200/201 (401 for an expired token).
AdapterErrors(a) ==
    IF Platform(a) = "facebook" THEN {"rejection", "transient"}
    ELSE IF Platform(a) = "instagram" THEN {"validation", "auth", "rejection"}
    ELSE {"auth"}

\* the gateway accepts at most MaxPosted posts per account, then refuses
GatewayOutcomes(a) ==
    IF posted[a] < MaxPosted THEN {"ok"} \cup AdapterErrors(a) ELSE AdapterErrors(a)

\* the error text of InstagramService.publish_post for a post without media
MediaRequired == "Instagram requires at least one image or video"

\* an Instagram adapter that sends a post without media to the platform
AdapterOutcomesUnchecked(a, media) == GatewayOutcomes(a)

\* publish_to_facebook / publish_to_instagram / publish_to_linkedin: what the
\* adapter returns; InstagramService.publish_post refuses a post without media
\* before it sends any request
AdapterOutcomes(a, media) ==
    IF Platform(a) = "instagram" /\ media = 0 THEN {"validation"}
    ELSE GatewayOutcomes(a)

\* lines 57-74: the result of the adapter of the platform, and success for
\* any other platform
DispatchOutcomes(a, media) ==
    IF HasAdapter(a) THEN AdapterOutcomes(a, media) ELSE {"ok"}

\* the error the adapter returns with the outcome out
ErrorMessage(a, media, out) ==
    IF Platform(a) = "instagram" /\ media = 0 THEN MediaRequired ELSE out

\* n times the request r
RECURSIVE Repeat(_, _)
Repeat(r, n) == IF n <= 0 THEN <<>> ELSE <<r>> \o Repeat(r, n - 1)

\* the requests the adapter of account a sends for a post with media files,
\* up to the one that decides the outcome out
GatewayCalls(a, media, out) ==
    IF ~HasAdapter(a) THEN <<>>
    ELSE IF Platform(a) = "facebook"
    THEN Repeat("photos", media) \o <<"feed">>
    ELSE IF Platform(a) = "linkedin"
    THEN Repeat("assets", media) \o <<"ugcPosts">>
    ELSE IF out = "validation" THEN <<>>
    ELSE IF out # "ok" THEN <<"media">>
    ELSE IF media <= 1 THEN <<"media", "media_publish">>
    ELSE Repeat("media", media) \o <<"media", "media_publish">>

\* PublishPostView._publish_to_platform on the target row of account a
DirectPublishTarget(row, a, out) ==
    IF Platform(a) = "facebook"
    THEN IF out = "ok"
         THEN [row EXCEPT !.status = "published", !.platform_post_id = posted[a] + 1]
         ELSE [row EXCEPT !.status = "failed", !.error_message = out]
    ELSE IF Platform(a) = "instagram"
         THEN [row EXCEPT !.status = "failed", !.error_message = "validation"]
         ELSE row

\* PublishPostView.post: synchronous publish, one gateway call per account;
\* out is the gateway's answer for each requested account
DirectPublish(req, out) ==
    LET conn == {a \in req \cap Accounts : accounts[a].status = "connected"}
        ok   == {a \in conn : Platform(a) = "facebook" /\ out[a] = "ok"}
    IN /\ req # {}
       /\ \A a \in req \cap Accounts : out[a] \in GatewayOutcomes(a)
       /\ targets' = [a \in Accounts |->
                        IF a \in conn
                        THEN DirectPublishTarget(GetOrCreate(targets, a, "draft")[a], a, out[a])
                        ELSE targets[a]]
       /\ posted' = [a \in Accounts |-> IF a \in ok THEN posted[a] + 1 ELSE posted[a]]
       /\ post' = IF ok # {}
                  THEN [post EXCEPT !.status = "published", !.published_at = now]
                  ELSE post
       /\ Spend("requests")
       /\ UNCHANGED <<accounts, tasks, handoffs, gateway, sync>>

\* SchedulePostView.post: update_or_create(..., defaults={'status': 'scheduled'})
DirectSchedule(req, at) ==
    /\ req # {}
    /\ post' = [post EXCEPT !.status = "scheduled", !.scheduled_at = at]
    /\ targets' = [a \in Accounts |->
                     IF a \in req
                     THEN [GetOrCreate(targets, a, "scheduled")[a] EXCEPT !.status = "scheduled"]
                     ELSE targets[a]]
    /\ Spend("requests")
    /\ UNCHANGED <<accounts, tasks, posted, gateway, sync>>
    /\ handoffs' = 0

\* CancelPostView.post
DirectCancel ==
    /\ post.status = "scheduled"
    /\ post' = [post EXCEPT !.status = "cancelled"]
    /\ targets' = CancelAll(targets)
    /\ Spend("requests")
    /\ UNCHANGED <<accounts, tasks, posted, handoffs, gateway, sync>>

\* SocialPostTargetViewSet (a ModelViewSet): DELETE /post-targets/{id}/
TargetDestroy(a) ==
    /\ targets[a].status # "absent"
    /\ targets' = [targets EXCEPT ![a] = NoTarget]
    /\ Spend("requests")
    /\ UNCHANGED <<post, accounts, tasks, posted, handoffs, gateway, sync>>

\* SocialPostTargetAdmin, the change form of a target: every field but
\* created_at and updated_at can be set; a failed target is put back to pending
\* with a next_retry_at that has come
AdminChangeTarget(a) ==
    /\ targets[a].status = "failed"
    /\ targets' = [targets EXCEPT ![a].status = "pending", ![a].next_retry_at = now]
    /\ Spend("requests")
    /\ UNCHANGED <<post, accounts, tasks, posted, handoffs, gateway, sync>>

\* the OAuth callback of a connected account: update_or_create(platform,
\* account_id, defaults={'access_token': ..., 'status': 'connected', ...})
Reconnect(a) ==
    /\ accounts[a].access_token < MaxTokens
    /\ accounts' = [accounts EXCEPT ![a].status = "connected", ![a].access_token = @ + 1]
    /\ UNCHANGED <<post, targets, tasks, posted, quota, handoffs, gateway, sync>>

\* SocialAccountViewSet.refresh_token: implemented for Facebook only; the
\* exchanged token is stored and the account is connected again
RefreshToken(a) ==
    /\ Platform(a) = "facebook"
    /\ accounts[a].status # "none"
    /\ accounts[a].access_token < MaxTokens
    /\ accounts' = [accounts EXCEPT ![a].status = "connected", ![a].access_token = @ + 1]
    /\ UNCHANGED <<post, targets, tasks, posted, quota, handoffs, gateway, sync>>

\* ------------------------------------------------------------- scheduler

\* a scheduler that takes a scheduled post whatever its scheduled_at
DueAtAnyTime(p) == p.status = "scheduled"

\* SocialPost.objects.filter(status='scheduled', scheduled_at__lte=now)
Due(p) == p.status = "scheduled" /\ p.scheduled_at # None /\ p.scheduled_at <= now

\* a scheduler that puts a due post without targets back to draft
OrphanedToDraft(p) == [p EXCEPT !.status = "draft"]

\* lines 169-172: a due post without targets is marked failed and saved
Orphaned(p) == [p EXCEPT !.status = "failed"]

\* process_scheduled_posts, run by Celery beat and by the cron script alike
ProcessScheduledPosts ==
    LET ids == {a \in Accounts : targets[a].status # "absent"}
    IN /\ Due(post)
       /\ IF ids # {}
          THEN /\ \E t \in FreeTask :
                    /\ t = CHOOSE u \in FreeTask : \A v \in FreeTask : u <= v
                    /\ tasks' = Delay(t, Ordered(ids))
               /\ Spend("tasks")
               /\ handoffs' = handoffs + 1
               /\ UNCHANGED post
          ELSE /\ post' = Orphaned(post)
               /\ UNCHANGED <<tasks, quota, handoffs>>
       /\ UNCHANGED <<accounts, targets, posted, gateway, sync>>


\* ---------------------------------------------------- publish_post task

CurAccount(t) == tasks[t].accts[tasks[t].idx]

\* lines 24-31: load the post, mark it publishing, reset the batch counters
TaskStart(t) ==
    /\ tasks[t].pc = "queued"
    /\ tasks[t].eta <= now
    /\ post' = [post EXCEPT !.status = "publishing"]
    /\ tasks' = [tasks EXCEPT ![t].pc = "loop", ![t].idx = 1,
                              ![t].published_count = 0, ![t].failed_count = 0,
                              ![t].post = [scheduled_at |-> post.scheduled_at,
                                           published_at |-> post.published_at,
                                           media_files |-> post.media_files]]
    /\ UNCHANGED <<accounts, targets, posted, quota, handoffs, gateway, sync>>

\* the row written at lines 48-49, given the row get_or_create returned
MarkPublishing(row) == [row EXCEPT !.status = "publishing"]

\* lines 35-49: load the account, get_or_create the target, set it publishing, save;
\* the gateway call of lines 57-68 is then in flight
TaskBeginTarget(t) ==
    /\ tasks[t].pc = "loop"
    /\ tasks[t].idx <= Len(tasks[t].accts)
    /\ accounts[CurAccount(t)].status # "none"
    /\ LET a   == CurAccount(t)
           row == MarkPublishing(GetOrCreate(targets, a, "pending")[a])
       IN /\ targets' = [targets EXCEPT ![a] = row]
          /\ tasks' = [tasks EXCEPT ![t].pc = "call", ![t].target = row,
                                    ![t].account = accounts[a]]
    /\ UNCHANGED <<post, accounts, posted, quota, handoffs, gateway, sync>>

\* line 38, first half of get_or_create: the SELECT; a task that finds no
\* row goes on to the INSERT, one that finds the row goes on as TaskBeginTarget
TaskLookupTarget(t) ==
    /\ tasks[t].pc = "loop"
    /\ tasks[t].idx <= Len(tasks[t].accts)
    /\ accounts[CurAccount(t)].status # "none"
    /\ IF targets[CurAccount(t)].rows = 0
       THEN /\ tasks' = [tasks EXCEPT ![t].pc = "create",
                                         ![t].account = accounts[CurAccount(t)]]
            /\ UNCHANGED <<post, accounts, targets, posted, quota, handoffs, gateway, sync>>
       ELSE TaskBeginTarget(t)

\* line 38, second half of get_or_create: the INSERT, then lines 48-49
TaskCreateTarget(t) ==
    /\ tasks[t].pc = "create"
    /\ LET a   == CurAccount(t)
           row == MarkPublishing(Create(targets, a, "pending")[a])
       IN /\ targets' = [targets EXCEPT ![a] = row]
          /\ tasks' = [tasks EXCEPT ![t].pc = "call", ![t].target = row]
    /\ UNCHANGED <<post, accounts, posted, quota, handoffs, gateway, sync>>

\* lines 76-90: the target row after the gateway answered out
RecordOutcome(row, out, pid, error) ==
    IF out = "ok"
    THEN [row EXCEPT !.status = "published", !.platform_post_id = pid,
                     !.error_message = ""]
    ELSE [row EXCEPT !.status = "failed", !.error_message = error]

\* InstagramService._create_media_container / _publish_media_container: a
\* token error marks the account expired; account.save() writes every column
\* of the instance the task loaded at line 36
GatewayAccountEffect(acc, a, out, account) ==
    IF Platform(a) = "instagram" /\ out = "auth"
    THEN [acc EXCEPT ![a] = [account EXCEPT !.status = "expired"]]
    ELSE acc

\* a loop that gives up the batch at the first account that fails
AdvanceUntilFailure(idx, n, out) == IF out = "ok" THEN idx + 1 ELSE n + 1

\* line 33, for account_id in target_account_ids: the index of the next account
\* of a list of n, after the account at idx ended with out; every handler of
\* lines 94-99 lies inside the loop body
Advance(idx, n, out) == idx + 1

\* lines 57-99: the gateway answers out; the result is recorded and saved
\* (saved = FALSE: target.save() raises after the counter of lines 81 / 86 was
\* incremented, and the handler of lines 97-99 increments failed_count)
CompleteTarget(t, out, saved) ==
    /\ tasks[t].pc = "call"
    /\ LET a   == CurAccount(t)
           row == RecordOutcome(tasks[t].target, out,
                                IF HasAdapter(a) THEN posted[a] + 1 ELSE MockPostId,
                                ErrorMessage(a, tasks[t].post.media_files, out))
       IN /\ out \in DispatchOutcomes(a, tasks[t].post.media_files)
          /\ IF saved THEN UNCHANGED quota ELSE Spend("faults")
          /\ posted' = [posted EXCEPT ![a] = IF out = "ok" /\ HasAdapter(a)
                                             THEN @ + 1 ELSE @]
          /\ accounts' = GatewayAccountEffect(accounts, a, out, tasks[t].account)
          /\ targets' = IF saved THEN [targets EXCEPT ![a] = row] ELSE targets
          /\ tasks' = [tasks EXCEPT
                ![t].pc = "loop",
                ![t].idx = Advance(@, Len(tasks[t].accts), out),
                ![t].target = NoTarget,
                ![t].account = NoAccount,
                ![t].published_count = IF out = "ok" THEN @ + 1 ELSE @,
                ![t].failed_count = @ + (IF out = "ok" THEN 0 ELSE 1)
                                      + (IF saved THEN 0 ELSE 1)]
    /\ UNCHANGED <<post, handoffs>>

\* the same, with the adapter's answer taken as a whole
TaskCompleteTarget(t, out, saved) ==
    /\ CompleteTarget(t, out, saved)
    /\ UNCHANGED <<gateway, sync>>

\* SocialAccountViewSet (a ModelViewSet): DELETE /accounts/{id}/; the targets
\* of the account go with it (on_delete=CASCADE). Taken while no publish_post
\* task holds the account in a gateway call.
AccountDestroy(a) ==
    /\ accounts[a].status # "none"
    /\ \A t \in TaskIds : tasks[t].pc \in {"call", "create"} => CurAccount(t) # a
    /\ accounts' = [accounts EXCEPT ![a] = NoAccount]
    /\ targets' = [targets EXCEPT ![a] = NoTarget]
    /\ Spend("requests")
    /\ UNCHANGED <<post, tasks, posted, handoffs, gateway, sync>>

\* lines 35 and 94-96: SocialAccount.objects.get raises DoesNotExist, the
\* failure is counted and the loop goes on with the next account
TaskAccountMissing(t) ==
    /\ tasks[t].pc = "loop"
    /\ tasks[t].idx <= Len(tasks[t].accts)
    /\ accounts[CurAccount(t)].status = "none"
    /\ tasks' = [tasks EXCEPT
          ![t].idx = Advance(@, Len(tasks[t].accts), "missing"),
          ![t].failed_count = @ + 1]
    /\ UNCHANGED <<post, accounts, targets, posted, quota, handoffs, gateway, sync>>

\* lines 101-108: the post status from the batch counters
BatchStatus(published_count, failed_count) ==
    IF published_count > 0 /\ failed_count = 0 THEN "published"
    ELSE IF published_count > 0 THEN "partially_published"
    ELSE "failed"

\* a backoff that grows linearly instead of doubling
CountdownLinear(retries) == RetryBase * (retries + 1)

\* line 134: countdown=60 * (2 ** self.request.retries)
Countdown(retries) == RetryBase * (2 ^ retries)

\* line 133: self.request.retries < self.max_retries
MayRetry(retries) == retries < TaskMaxRetries

\* lines 101-143: write the post status; analyze_post_performance.apply_async
\* either succeeds (queued = TRUE) or raises, which retries the task with
\* backoff or, after max_retries, marks the post failed
TaskFinish(t, queued) ==
    /\ tasks[t].pc = "loop"
    /\ tasks[t].idx > Len(tasks[t].accts)
    /\ LET st    == BatchStatus(tasks[t].published_count, tasks[t].failed_count)
           saved == [status |-> st,
                     scheduled_at |-> tasks[t].post.scheduled_at,
                     published_at |-> IF st = "published" THEN now
                                      ELSE tasks[t].post.published_at,
                     media_files |-> tasks[t].post.media_files]
       IN IF queued
          THEN /\ post' = saved
               /\ tasks' = [tasks EXCEPT ![t].pc = "done"]
               /\ UNCHANGED quota
          ELSE /\ Spend("outages")
               /\ IF MayRetry(tasks[t].retries)
                  THEN /\ post' = saved
                       /\ tasks' = [tasks EXCEPT
                             ![t].pc = "queued",
                             ![t].retries = @ + 1,
                             ![t].countdown = Countdown(tasks[t].retries),
                             ![t].eta = now + Countdown(tasks[t].retries)]
                  ELSE /\ post' = [saved EXCEPT !.status = "failed"]
                       /\ tasks' = [tasks EXCEPT ![t].pc = "dead"]
    /\ UNCHANGED <<accounts, targets, posted, handoffs, gateway, sync>>

\* -------------------------------------------------- container protocol

\* the adapters that publish to Instagram through media containers:
\* InstagramService.publish_post and FacebookService.publish_instagram_post
Adapters == {"InstagramService", "FacebookService"}

MediaKinds == {"image", "video"}

\* the media lists of a post, each file by its kind
MediaLists == UNION {[1..n -> MediaKinds] : n \in 0..MaxItems}

IsImage(kind) == kind = "image"

\* the media files an adapter creates a container for:
\* InstagramService._publish_carousel_post takes every file,
\* FacebookService._publish_instagram_carousel skips the videos
Items(adapter, media) ==
    IF adapter = "FacebookService" /\ Len(media) > 1
    THEN SelectSeq(media, IsImage)
    ELSE media

\* what the platform answers to the creation or publication of a container;
\* only InstagramService looks for a token error in the answer
ContainerResponses(adapter) ==
    IF adapter = "InstagramService" THEN {"ok", "auth", "rejection"}
    ELSE {"ok", "rejection"}

\* the adapter is entered: without media, or without a file it makes a
\* container for, it returns an error before any request
Begin(adapter, media, comment) ==
    IF Items(adapter, media) = <<>>
    THEN [IdleGateway EXCEPT !.pc = "done", !.adapter = adapter, !.media = media,
                             !.comment = comment, !.result = "validation"]
    ELSE [IdleGateway EXCEPT !.pc = "media", !.adapter = adapter, !.media = media,
                             !.comment = comment]

\* publish_to_instagram: InstagramService.publish_post for the target in
\* flight; media are the kinds of post.media_files, comment is whether
\* post.first_comment is set
PublishToInstagram(t, media, comment) ==
    /\ gateway.pc \in {"idle", "returned"}
    /\ tasks[t].pc = "call"
    /\ Platform(CurAccount(t)) = "instagram"
    /\ Len(media) = tasks[t].post.media_files
    /\ gateway' = [Begin("InstagramService", media, comment) EXCEPT !.task = t]
    /\ UNCHANGED <<post, accounts, targets, tasks, posted, quota, handoffs, sync>>

\* FacebookService.publish_instagram_post, which takes no first comment into
\* account; no code of the repository calls it, so its caller is the environment
PublishInstagramPost(media) ==
    /\ gateway.pc \in {"idle", "returned"}
    /\ gateway' = Begin("FacebookService", media, FALSE)
    /\ UNCHANGED <<post, accounts, targets, tasks, posted, quota, handoffs, sync>>

\* where the adapter goes once every container of the media files exists
AfterContainers(adapter, media) ==
    IF Len(media) > 1 THEN "carousel"
    ELSE IF adapter = "FacebookService" /\ media[1] = "video" THEN "wait"
    ELSE "publish"

\* _create_media_container / the POST .../media of publish_instagram_post and
\* of _publish_instagram_carousel: the container of the next media file
CreateMediaContainer(resp) ==
    /\ gateway.pc = "media"
    /\ resp \in ContainerResponses(gateway.adapter)
    /\ LET g == [gateway EXCEPT !.calls = Append(@, "media")]
           n == Len(Items(gateway.adapter, gateway.media))
       IN gateway' =
            IF resp # "ok" THEN [g EXCEPT !.pc = "done", !.result = resp]
            ELSE IF gateway.children + 1 < n THEN [g EXCEPT !.children = @ + 1]
            ELSE [g EXCEPT !.children = @ + 1,
                           !.pc = AfterContainers(gateway.adapter, gateway.media)]
    /\ UNCHANGED <<post, accounts, targets, tasks, posted, quota, handoffs, sync>>

\* _create_carousel_container / step 2 of _publish_instagram_carousel: the
\* parent container, 'children': ','.join(container_ids)
CreateCarouselContainer(resp) ==
    /\ gateway.pc = "carousel"
    /\ resp \in {"ok", "rejection"}
    /\ LET g == [gateway EXCEPT !.calls = Append(@, "media")]
       IN gateway' =
            IF resp = "ok" THEN [g EXCEPT !.parent = gateway.children, !.pc = "publish"]
            ELSE [g EXCEPT !.pc = "done", !.result = resp]
    /\ UNCHANGED <<post, accounts, targets, tasks, posted, quota, handoffs, sync>>

\* what GET .../{container_id}?fields=status_code answers: a status_code, a
\* response other than 200, or an exception of the request
StatusResponses ==
    {"FINISHED", "ERROR", "IN_PROGRESS", "PUBLISHED", "EXPIRED", "non200", "exception"}

\* the answers after which _wait_for_instagram_container sleeps; after any
\* other status_code it polls again at once
Sleeps(resp) == resp \in {"IN_PROGRESS", "PUBLISHED", "non200"}

\* a wait that has no deadline
ExpiredNever(elapsed) == FALSE

\* while time.time() - start_time < max_wait_seconds, negated
Expired(elapsed) == elapsed >= MaxWaitSeconds

\* _wait_for_instagram_container: one turn of the loop. The deadline is looked
\* at before the status request only; the request takes latency seconds (at
\* least one unit of the clock) and the sleep PollSleep seconds
WaitForInstagramContainer(resp, latency) ==
    /\ gateway.pc = "wait"
    /\ IF Expired(gateway.elapsed)
       THEN gateway' = [gateway EXCEPT !.pc = "done", !.result = "not_ready",
                                       !.timed_out = TRUE]
       ELSE LET g == [gateway EXCEPT
                         !.polls = @ + 1,
                         !.elapsed = @ + latency + (IF Sleeps(resp) THEN PollSleep ELSE 0)]
            IN gateway' =
                 IF resp = "FINISHED" THEN [g EXCEPT !.ready = TRUE, !.pc = "publish"]
                 ELSE IF resp \in {"ERROR", "exception"}
                 THEN [g EXCEPT !.pc = "done", !.result = "not_ready"]
                 ELSE g
    /\ UNCHANGED <<post, accounts, targets, tasks, posted, quota, handoffs, sync>>

\* _publish_media_container / the POST .../media_publish
PublishMediaContainer(resp) ==
    /\ gateway.pc = "publish"
    /\ resp \in ContainerResponses(gateway.adapter)
    /\ LET g == [gateway EXCEPT !.calls = Append(@, "media_publish")]
       IN gateway' =
            IF resp # "ok" THEN [g EXCEPT !.pc = "done", !.result = resp]
            ELSE IF gateway.comment
            THEN [g EXCEPT !.pc = "comment", !.post_id = posted["ig"] + 1]
            ELSE [g EXCEPT !.pc = "done", !.result = "ok", !.post_id = posted["ig"] + 1]
    /\ UNCHANGED <<post, accounts, targets, tasks, posted, quota, handoffs, sync>>

\* what the first comment can come to: added, refused, or no answer at all
CommentResponses == {"ok", "rejection", "exception"}

\* an adapter that fails the publish when the first comment fails
CommentResultStrict(resp) == IF resp = "ok" THEN "ok" ELSE "rejection"

\* lines 128-141: the value of _add_comment is dropped, the publish succeeded
CommentResult(resp) == "ok"

\* _add_comment: POST .../{post_id}/comments; every failure is caught and logged
AddComment(resp) ==
    /\ gateway.pc = "comment"
    /\ resp \in CommentResponses
    /\ gateway' = [gateway EXCEPT !.calls = Append(@, "comments"),
                                  !.commented = resp,
                                  !.pc = "done",
                                  !.result = CommentResult(resp)]
    /\ UNCHANGED <<post, accounts, targets, tasks, posted, quota, handoffs, sync>>

\* publish_to_instagram returns what InstagramService.publish_post returned,
\* and publish_post records it on the target (lines 76-92)
PublishToInstagramReturn(t) ==
    /\ gateway.pc = "done"
    /\ gateway.task = t
    /\ CompleteTarget(t, gateway.result, TRUE)
    /\ gateway' = [gateway EXCEPT !.pc = "returned"]
    /\ UNCHANGED sync

\* ---------------------------------------------------------------- analytics

\* FacebookAnalyticsService._update_post_analytics: get_or_create with the
\* metrics as defaults, and an existing row is overwritten with them
UpdatePostAnalytics(an, m) ==
    IF an.rows = 0
    THEN [rows |-> 1, reach |-> m.reach, likes |-> m.likes, aged |-> FALSE]
    ELSE [an EXCEPT !.reach = m.reach, !.likes = m.likes]

\* _get_post_insights / _get_media_insights return {} when the request fails
NoInsights == [reach |-> None, likes |-> None]

\* what the insights request for the target of account a comes to; the
\* platform has nothing to report for an empty post id
InsightsAnswers(a) ==
    IF targets[a].platform_post_id = 0 THEN {NoInsights}
    ELSE Metrics \cup {NoInsights}

\* sync_analytics_for_account: _sync_post_analytics / _sync_media_analytics for
\* the target of account a. The queryset takes the targets of the account whose
\* post has a published_at; platform_post_id__isnull=False holds of every row,
\* the column is a CharField that is never NULL. One insights request per
\* target, and the row is written when the answer is not empty
SyncPostAnalytics(a, m) ==
    /\ post.published_at # None
    /\ targets[a].rows > 0
    /\ m \in InsightsAnswers(a)
    /\ targets' = [targets EXCEPT ![a].analytics =
                      IF m = NoInsights THEN @ ELSE UpdatePostAnalytics(@, m)]
    /\ Spend("syncs")
    /\ UNCHANGED <<post, accounts, tasks, posted, handoffs, gateway, sync>>

\* a reconciler for which an account without insights access is an error
AccountInsightsStrict(access, answered) ==
    IF ~access THEN "raised" ELSE IF answered THEN "updated" ELSE "empty"

\* _get_page_insights / _get_account_insights: {} for an account that is not a
\* page or a business account, and {} when the platform does not answer
AccountInsights(access, answered) ==
    IF access /\ answered THEN "updated" ELSE "empty"

\* line 616: self.request.retries < self.max_retries, max_retries=2
SyncMayRetry(retries) == retries < SyncMaxRetries

\* sync_analytics_for_account for a Facebook or Instagram account: the
\* account-level insights, then the insights of its targets as in
\* SyncPostAnalytics; an exception that gets out of the service retries the task
SyncAnalyticsForAccount(a, access, answered, m) ==
    LET insights == AccountInsights(access, answered)
        selected == post.published_at # None /\ targets[a].rows > 0
    IN /\ Platform(a) \in {"facebook", "instagram"}
       /\ IF insights # "raised" /\ selected
          THEN /\ m \in InsightsAnswers(a)
               /\ targets' = [targets EXCEPT ![a].analytics =
                                 IF m = NoInsights THEN @ ELSE UpdatePostAnalytics(@, m)]
          ELSE /\ m = NoInsights
               /\ UNCHANGED targets
       /\ sync' = [account |-> a, access |-> access,
                   insights_updated |-> insights = "updated",
                   raised |-> insights = "raised",
                   retries |-> IF insights = "raised" /\ SyncMayRetry(sync.retries)
                               THEN sync.retries + 1 ELSE sync.retries,
                   loaded_id |-> "none", loaded |-> NoAccount]
       /\ Spend("syncs")
       /\ UNCHANGED <<post, accounts, tasks, posted, handoffs, gateway>>

\* sync_analytics_for_account, tasks.py line 595: the run loads the account
\* and goes on to ask the platform for the insights of the account
SyncLoadAccount(a) ==
    /\ Platform(a) \in {"facebook", "instagram"}
    /\ accounts[a].status # "none"
    /\ sync.loaded_id = "none"
    /\ sync' = [sync EXCEPT !.loaded_id = a, !.loaded = accounts[a]]
    /\ Spend("syncs")
    /\ UNCHANGED <<post, accounts, targets, tasks, posted, handoffs, gateway>>

\* sync_account_analytics: with insights answered, _update_account_metrics sets
\* permissions and last_sync on the instance the run loaded and calls
\* account.save(), which writes every column of that instance; without an
\* answer nothing is saved
UpdateAccountMetrics(answered) ==
    /\ sync.loaded_id # "none"
    /\ accounts' = IF answered
                   THEN [accounts EXCEPT ![sync.loaded_id] = sync.loaded]
                   ELSE accounts
    /\ sync' = [sync EXCEPT !.loaded_id = "none", !.loaded = NoAccount]
    /\ UNCHANGED <<post, targets, tasks, posted, quota, handoffs, gateway>>

\* SocialAnalytics.objects.update_or_create(post_target=target, defaults={
\* 'reach': ..., 'likes_count': ..., 'engagement': ..., 'raw_data': ...}) in
\* tasks.py: likes_count, comments_count, engagement and raw_data are not
\* fields of SocialAnalytics, so creating the row raises FieldError (caught
\* and logged by the caller) and updating it writes the fields that exist
UpdateOrCreateAnalytics(an, m) ==
    IF an.rows = 0 THEN an ELSE [an EXCEPT !.reach = m.reach]

\* analyze_post_performance, queued by publish_post: one update_or_create
\* per published target; m is what is reported for each of them
AnalyzePostPerformance(m) ==
    /\ \E t \in TaskIds : tasks[t].pc = "done"
    /\ post.status \in {"published", "partially_published"}
    /\ DOMAIN m = {a \in Accounts : targets[a].status = "published"}
    /\ targets' = [a \in Accounts |->
                     IF a \in DOMAIN m
                     THEN [targets[a] EXCEPT !.analytics = UpdateOrCreateAnalytics(@, m[a])]
                     ELSE targets[a]]
    /\ Spend("syncs")
    /\ UNCHANGED <<post, accounts, tasks, posted, handoffs, gateway, sync>>

\* an instant, more than a year later
Past(at) == IF at = None THEN None ELSE now

\* the clock advances by more than 365 days
YearTick ==
    /\ post' = [post EXCEPT !.scheduled_at = Past(@), !.published_at = Past(@)]
    /\ tasks' = [t \in TaskIds |->
                   [tasks[t] EXCEPT !.eta = Past(@),
                                    !.post = [@ EXCEPT !.scheduled_at = Past(@),
                                                       !.published_at = Past(@)]]]
    /\ targets' = [a \in Accounts |->
                     IF targets[a].analytics.rows > 0
                     THEN [targets[a] EXCEPT !.analytics.aged = TRUE]
                     ELSE targets[a]]
    /\ UNCHANGED <<accounts, posted, quota, handoffs, gateway, sync>>

\* cleanup_old_tasks: SocialAnalytics.objects.filter(created_at__lt=cutoff_date).delete()
CleanupOldTasks ==
    /\ targets' = [a \in Accounts |->
                     IF targets[a].analytics.rows > 0 /\ targets[a].analytics.aged
                     THEN [targets[a] EXCEPT !.analytics = NoAnalytics]
                     ELSE targets[a]]
    /\ Spend("syncs")
    /\ UNCHANGED <<post, accounts, tasks, posted, handoffs, gateway, sync>>

\* ------------------------------------------------------------------ Next
Times == {now, now + BeatPeriod}
\* the account ids of a request: some of the Meta accounts, or an id that
\* matches no account
Requests == (SUBSET {"fb", "ig"} \ {{}}) \cup {{"nobody"}}
\* the account ids of a request that includes the LinkedIn account
LinkedInRequests == {{"li"}, {"ig", "li"}}

Next ==
    \/ Tick
    \/ \E m \in 0..MaxMedia : ViewUpdate(m)
    \/ \E req \in Requests : ViewPublish(req)
    \/ \E req \in Requests : ViewSchedule(req, now + BeatPeriod)
    \/ ViewCancel
    \/ \E req \in Requests : \E out \in [req -> Outcomes] : DirectPublish(req, out)
    \/ \E req \in Requests : \E at \in Times : DirectSchedule(req, at)
    \/ DirectCancel
    \/ ProcessScheduledPosts
    \/ \E t \in TaskIds : TaskStart(t)
    \/ \E t \in TaskIds : TaskBeginTarget(t)
    \/ \E t \in TaskIds : \E out \in Outcomes : \E saved \in BOOLEAN :
           TaskCompleteTarget(t, out, saved)
    \/ \E t \in TaskIds : \E queued \in BOOLEAN : TaskFinish(t, queued)

Spec == Init /\ [][Next]_vars

\* The publish path under a failing broker: RetryTasks publish requests, the
\* task of each, and enough exceptions to use up every retry of a task.
InitRetry ==
    /\ post = [status |-> "draft", scheduled_at |-> None, published_at |-> None,
               media_files |-> 1]
    /\ accounts = [a \in Accounts |-> [status |-> "connected", posting_enabled |-> TRUE,
                                      access_token |-> 1]]
    /\ targets = [a \in Accounts |-> NoTarget]
    /\ tasks = [t \in TaskIds |-> IdleTask]
    /\ posted = [a \in Accounts |-> 0]
    /\ quota = [tasks |-> RetryTasks, requests |-> RetryTasks,
                faults |-> MaxFaults,
                outages |-> MaxOutages + TaskMaxRetries + 1, syncs |-> MaxSyncs]
    /\ handoffs = 0
    /\ gateway = IdleGateway
    /\ sync = IdleSync

NextRetry ==
    \/ Tick
    \/ \E req \in Requests : ViewPublish(req)
    \/ \E t \in TaskIds : TaskStart(t)
    \/ \E t \in TaskIds : TaskBeginTarget(t)
    \/ \E t \in TaskIds : \E out \in Outcomes : \E saved \in BOOLEAN :
           TaskCompleteTarget(t, out, saved)
    \/ \E t \in TaskIds : \E queued \in BOOLEAN : TaskFinish(t, queued)

SpecRetry == InitRetry /\ [][NextRetry]_vars

\* The Post published to, or scheduled for, the LinkedIn account.
NextLinkedIn ==
    \/ Tick
    \/ \E req \in LinkedInRequests : ViewPublish(req)
    \/ \E req \in LinkedInRequests : DirectSchedule(req, now + BeatPeriod)
    \/ ProcessScheduledPosts
    \/ \E t \in TaskIds : TaskStart(t)
    \/ \E t \in TaskIds : TaskBeginTarget(t)
    \/ \E t \in TaskIds : \E out \in Outcomes : \E saved \in BOOLEAN :
           TaskCompleteTarget(t, out, saved)
    \/ \E t \in TaskIds : \E queued \in BOOLEAN : TaskFinish(t, queued)

SpecLinkedIn == Init /\ [][NextLinkedIn]_vars

\* A single dispatch of the Post, by a publish request or by the scheduler.
InitScenario ==
    /\ \E m \in 0..MaxMedia :
         post = [status |-> "draft", scheduled_at |-> None, published_at |-> None,
                 media_files |-> m]
    /\ accounts = [a \in Accounts |-> [status |-> "connected", posting_enabled |-> TRUE,
                                      access_token |-> 1]]
    /\ targets = [a \in Accounts |-> NoTarget]
    /\ tasks = [t \in TaskIds |-> IdleTask]
    /\ posted = [a \in Accounts |-> 0]
    /\ quota = [tasks |-> ScenarioTasks, requests |-> ScenarioTasks,
                faults |-> MaxFaults, outages |-> MaxOutages, syncs |-> MaxSyncs]
    /\ handoffs = 0
    /\ gateway = IdleGateway
    /\ sync = IdleSync

NextScenario ==
    \/ Tick
    \/ \E req \in Requests : ViewPublish(req)
    \/ \E req \in Requests : ViewSchedule(req, now + BeatPeriod)
    \/ ProcessScheduledPosts
    \/ \E t \in TaskIds : TaskStart(t)
    \/ \E t \in TaskIds : TaskBeginTarget(t)
    \/ \E t \in TaskIds : \E out \in Outcomes : \E saved \in BOOLEAN :
           TaskCompleteTarget(t, out, saved)
    \/ \E t \in TaskIds : \E queued \in BOOLEAN : TaskFinish(t, queued)

SpecScenario == InitScenario /\ [][NextScenario]_vars

\* A Post that is published, scheduled and cancelled: every handler and the
\* scheduler, CancelRequests requests and the tasks of a single dispatch.
InitCancel ==
    /\ \E m \in 0..MaxMedia :
         post = [status |-> "draft", scheduled_at |-> None, published_at |-> None,
                 media_files |-> m]
    /\ accounts = [a \in Accounts |-> [status |-> "connected", posting_enabled |-> TRUE,
                                      access_token |-> 1]]
    /\ targets = [a \in Accounts |-> NoTarget]
    /\ tasks = [t \in TaskIds |-> IdleTask]
    /\ posted = [a \in Accounts |-> 0]
    /\ quota = [tasks |-> ScenarioTasks, requests |-> CancelRequests,
                faults |-> MaxFaults, outages |-> MaxOutages, syncs |-> MaxSyncs]
    /\ handoffs = 0
    /\ gateway = IdleGateway
    /\ sync = IdleSync

SpecCancel == InitCancel /\ [][Next]_vars

\* publish_post tasks that find their Target deleted and create it again,
\* with the SELECT and the INSERT of get_or_create as separate steps.
InitRace ==
    /\ \E m \in 0..MaxMedia :
         post = [status |-> "draft", scheduled_at |-> None, published_at |-> None,
                 media_files |-> m]
    /\ accounts = [a \in Accounts |-> [status |-> "connected", posting_enabled |-> TRUE,
                                      access_token |-> 1]]
    /\ targets = [a \in Accounts |-> NoTarget]
    /\ tasks = [t \in TaskIds |-> IdleTask]
    /\ posted = [a \in Accounts |-> 0]
    /\ quota = [tasks |-> RaceTasks, requests |-> RaceTasks + 1,
                faults |-> MaxFaults, outages |-> MaxOutages, syncs |-> MaxSyncs]
    /\ handoffs = 0
    /\ gateway = IdleGateway
    /\ sync = IdleSync

NextRace ==
    \/ \E req \in Requests : ViewPublish(req)
    \/ \E a \in Accounts : TargetDestroy(a)
    \/ \E t \in TaskIds : TaskStart(t)
    \/ \E t \in TaskIds : TaskLookupTarget(t)
    \/ \E t \in TaskIds : TaskCreateTarget(t)
    \/ \E t \in TaskIds : \E out \in Outcomes : \E saved \in BOOLEAN :
           TaskCompleteTarget(t, out, saved)
    \/ \E t \in TaskIds : \E queued \in BOOLEAN : TaskFinish(t, queued)

SpecRace == InitRace /\ [][NextRace]_vars

\* A single dispatch of the Post followed by analytics runs.
NextAnalytics ==
    \/ \E req \in Requests : ViewPublish(req)
    \/ \E t \in TaskIds : TaskStart(t)
    \/ \E t \in TaskIds : TaskBeginTarget(t)
    \/ \E t \in TaskIds : \E out \in Outcomes : \E saved \in BOOLEAN :
           TaskCompleteTarget(t, out, saved)
    \/ \E t \in TaskIds : \E queued \in BOOLEAN : TaskFinish(t, queued)
    \/ \E req \in Requests : \E out \in [req -> Outcomes] : DirectPublish(req, out)
    \/ \E a \in Accounts : \E m \in Metrics \cup {NoInsights} : SyncPostAnalytics(a, m)
    \/ \E S \in SUBSET Accounts : \E m \in [S -> Metrics] : AnalyzePostPerformance(m)
    \/ YearTick
    \/ CleanupOldTasks

SpecAnalytics == InitScenario /\ [][NextAnalytics]_vars

\* The reconciliation of the accounts of a Post that was published at once.
NextSync ==
    \/ \E req \in Requests : \E out \in [req -> Outcomes] : DirectPublish(req, out)
    \/ \E a \in Accounts : \E access, answered \in BOOLEAN :
           \E m \in Metrics \cup {NoInsights} :
               SyncAnalyticsForAccount(a, access, answered, m)
    \/ YearTick
    \/ CleanupOldTasks

SpecSync == InitScenario /\ [][NextSync]_vars

\* A single dispatch of the Post during which the database fails once more
\* than MaxFaults times.
InitFaults ==
    /\ \E m \in 0..MaxMedia :
         post = [status |-> "draft", scheduled_at |-> None, published_at |-> None,
                 media_files |-> m]
    /\ accounts = [a \in Accounts |-> [status |-> "connected", posting_enabled |-> TRUE,
                                      access_token |-> 1]]
    /\ targets = [a \in Accounts |-> NoTarget]
    /\ tasks = [t \in TaskIds |-> IdleTask]
    /\ posted = [a \in Accounts |-> 0]
    /\ quota = [tasks |-> ScenarioTasks, requests |-> ScenarioTasks,
                faults |-> MaxFaults + 1, outages |-> MaxOutages, syncs |-> MaxSyncs]
    /\ handoffs = 0
    /\ gateway = IdleGateway
    /\ sync = IdleSync

SpecFaults == InitFaults /\ [][NextScenario]_vars

\* A single dispatch of the Post while the accounts are connected anew.
NextAccount ==
    \/ \E req \in Requests : ViewPublish(req)
    \/ \E t \in TaskIds : TaskStart(t)
    \/ \E t \in TaskIds : TaskBeginTarget(t)
    \/ \E t \in TaskIds : \E out \in Outcomes : \E saved \in BOOLEAN :
           TaskCompleteTarget(t, out, saved)
    \/ \E t \in TaskIds : \E queued \in BOOLEAN : TaskFinish(t, queued)
    \/ \E a \in Accounts : Reconnect(a)

SpecAccount == InitScenario /\ [][NextAccount]_vars

\* The scheduler and the workers at work: Celery beat runs
\* process_scheduled_posts every BeatPeriod seconds, and a worker runs every
\* task that is queued, so none of their steps stays enabled for ever.
NextSweep ==
    \/ Tick
    \/ \E req \in Requests : ViewPublish(req)
    \/ \E req \in Requests : ViewSchedule(req, now + BeatPeriod)
    \/ \E a \in Accounts : AdminChangeTarget(a)
    \/ ProcessScheduledPosts
    \/ \E t \in TaskIds : TaskStart(t)
    \/ \E t \in TaskIds : TaskBeginTarget(t)
    \/ \E t \in TaskIds : \E out \in Outcomes : \E saved \in BOOLEAN :
           TaskCompleteTarget(t, out, saved)
    \/ \E t \in TaskIds : \E queued \in BOOLEAN : TaskFinish(t, queued)

SpecSweep ==
    /\ InitCancel
    /\ [][NextSweep]_vars
    /\ WF_vars(Tick)
    /\ WF_vars(ProcessScheduledPosts)
    /\ \A t \in TaskIds :
          WF_vars(\/ TaskStart(t)
                  \/ TaskBeginTarget(t)
                  \/ \E out \in Outcomes : \E saved \in BOOLEAN :
                         TaskCompleteTarget(t, out, saved)
                  \/ \E queued \in BOOLEAN : TaskFinish(t, queued))

\* A batch of up to three accounts, one of which may be deleted and one of
\* whose saves may fail while the publish_post task works through the list.
InitBatch ==
    /\ \E m \in 0..MaxMedia :
         post = [status |-> "draft", scheduled_at |-> None, published_at |-> None,
                 media_files |-> m]
    /\ accounts = [a \in Accounts |-> [status |-> "connected", posting_enabled |-> TRUE,
                                      access_token |-> 1]]
    /\ targets = [a \in Accounts |-> NoTarget]
    /\ tasks = [t \in TaskIds |-> IdleTask]
    /\ posted = [a \in Accounts |-> 0]
    /\ quota = [tasks |-> ScenarioTasks, requests |-> ScenarioTasks + 1,
                faults |-> MaxFaults + 1, outages |-> MaxOutages, syncs |-> MaxSyncs]
    /\ handoffs = 0
    /\ gateway = IdleGateway
    /\ sync = IdleSync

NextBatch ==
    \/ \E req \in SUBSET Supported \ {{}} : ViewPublish(req)
    \/ \E a \in Supported : AccountDestroy(a)
    \/ \E t \in TaskIds : TaskStart(t)
    \/ \E t \in TaskIds : TaskBeginTarget(t)
    \/ \E t \in TaskIds : TaskAccountMissing(t)
    \/ \E t \in TaskIds : \E out \in Outcomes : \E saved \in BOOLEAN :
           TaskCompleteTarget(t, out, saved)
    \/ \E t \in TaskIds : \E queued \in BOOLEAN : TaskFinish(t, queued)

SpecBatch == InitBatch /\ [][NextBatch]_vars

\* A Post that is scheduled and cancelled through SocialPostViewSet while the
\* scheduler and the workers run; nothing else asks for its publication.
NextCancelled ==
    \/ Tick
    \/ \E req \in Requests : ViewSchedule(req, now + BeatPeriod)
    \/ ViewCancel
    \/ ProcessScheduledPosts
    \/ \E t \in TaskIds : TaskStart(t)
    \/ \E t \in TaskIds : TaskBeginTarget(t)
    \/ \E t \in TaskIds : \E out \in Outcomes : \E saved \in BOOLEAN :
           TaskCompleteTarget(t, out, saved)
    \/ \E t \in TaskIds : \E queued \in BOOLEAN : TaskFinish(t, queued)

SpecCancelled == InitCancel /\ [][NextCancelled]_vars

\* A single dispatch of the Post while the analytics of the accounts are
\* synchronised, the Instagram account is connected anew and the token of the
\* Facebook account is refreshed.
NextExpiry ==
    \/ \E req \in Requests : ViewPublish(req)
    \/ \E t \in TaskIds : TaskStart(t)
    \/ \E t \in TaskIds : TaskBeginTarget(t)
    \/ \E t \in TaskIds : \E out \in Outcomes : \E saved \in BOOLEAN :
           TaskCompleteTarget(t, out, saved)
    \/ \E t \in TaskIds : \E queued \in BOOLEAN : TaskFinish(t, queued)
    \/ \E a \in Accounts : SyncLoadAccount(a)
    \/ \E answered \in BOOLEAN : UpdateAccountMetrics(answered)
    \/ Reconnect("ig")
    \/ RefreshToken("fb")

SpecExpiry == InitScenario /\ [][NextExpiry]_vars

\* A single dispatch of the Post to the Facebook account, to the account of a
\* platform without an adapter, or to both.
MockRequests == SUBSET {"fb", "tw"} \ {{}}

NextMock ==
    \/ Tick
    \/ \E req \in MockRequests : ViewPublish(req)
    \/ \E req \in MockRequests : ViewSchedule(req, now + BeatPeriod)
    \/ ProcessScheduledPosts
    \/ \E t \in TaskIds : TaskStart(t)
    \/ \E t \in TaskIds : TaskBeginTarget(t)
    \/ \E t \in TaskIds : \E out \in Outcomes : \E saved \in BOOLEAN :
           TaskCompleteTarget(t, out, saved)
    \/ \E t \in TaskIds : \E queued \in BOOLEAN : TaskFinish(t, queued)

SpecMock == InitScenario /\ [][NextMock]_vars

\* A Post that is scheduled, through either handler and also for an account
\* id that matches no account, and whose Targets are deleted before it is due.
NextOrphan ==
    \/ Tick
    \/ \E req \in Requests : ViewSchedule(req, now + BeatPeriod)
    \/ \E req \in Requests : \E at \in Times : DirectSchedule(req, at)
    \/ \E a \in Accounts : TargetDestroy(a)
    \/ ProcessScheduledPosts
    \/ \E t \in TaskIds : TaskStart(t)
    \/ \E t \in TaskIds : TaskBeginTarget(t)
    \/ \E t \in TaskIds : \E out \in Outcomes : \E saved \in BOOLEAN :
           TaskCompleteTarget(t, out, saved)
    \/ \E t \in TaskIds : \E queued \in BOOLEAN : TaskFinish(t, queued)

SpecOrphan == InitBatch /\ [][NextOrphan]_vars

\* The container protocol: one publish request for the Instagram account, the
\* publish_post task of it, and the calls of the two adapters, request by
\* request.
InitGateway ==
    /\ \E m \in 0..MaxItems :
         post = [status |-> "draft", scheduled_at |-> None, published_at |-> None,
                 media_files |-> m]
    /\ accounts = [a \in Accounts |-> [status |-> "connected", posting_enabled |-> TRUE,
                                      access_token |-> 1]]
    /\ targets = [a \in Accounts |-> NoTarget]
    /\ tasks = [t \in TaskIds |-> IdleTask]
    /\ posted = [a \in Accounts |-> 0]
    /\ quota = [tasks |-> ScenarioTasks, requests |-> ScenarioTasks,
                faults |-> MaxFaults, outages |-> MaxOutages, syncs |-> MaxSyncs]
    /\ handoffs = 0
    /\ gateway = IdleGateway
    /\ sync = IdleSync

NextGateway ==
    \/ ViewPublish({"ig"})
    \/ \E t \in TaskIds : TaskStart(t)
    \/ \E t \in TaskIds : TaskBeginTarget(t)
    \/ \E t \in TaskIds : \E media \in MediaLists : \E comment \in BOOLEAN :
           PublishToInstagram(t, media, comment)
    \/ \E media \in MediaLists : PublishInstagramPost(media)
    \/ \E resp \in ContainerResponses("InstagramService") : CreateMediaContainer(resp)
    \/ \E resp \in ContainerResponses("InstagramService") : CreateCarouselContainer(resp)
    \/ \E resp \in StatusResponses : \E latency \in 1..MaxLatency :
           WaitForInstagramContainer(resp, latency)
    \/ \E resp \in ContainerResponses("InstagramService") : PublishMediaContainer(resp)
    \/ \E resp \in CommentResponses : AddComment(resp)
    \/ \E t \in TaskIds : PublishToInstagramReturn(t)
    \/ \E t \in TaskIds : \E queued \in BOOLEAN : TaskFinish(t, queued)

SpecGateway == InitGateway /\ [][NextGateway]_vars

\* ------------------------------------------------------------ properties

\* the tasks whose gateway call for account a is in flight
InFlight(a) ==
    {t \in TaskIds : tasks[t].pc = "call" /\ tasks[t].accts[tasks[t].idx] = a}

\* C1: at most one publish attempt is in flight for a Target at any time: a
\* second publish_post for the same Target is rejected before its gateway call.
C1_AtMostOneInFlight == \A a \in Accounts : Cardinality(InFlight(a)) <= 1

\* C2: the Scheduler hands a due scheduled Post to the Dispatcher exactly once
\* per scheduling, whatever the number of ticks that find it due.
C2_HandedOverOnce == handoffs <= 1

\* C3: a retried publish_post never obtains a platform post for a Target that
\* already has a platform_post_id, so no Target receives two of them.
C3_IdempotentRetry ==
    [][\A t \in TaskIds :
         (tasks[t].retries > 0 /\ TaskCompleteTarget(t, "ok", TRUE))
            => tasks[t].target.platform_post_id = 0]_vars

Open(tg) == {a \in Accounts : tg[a].status \in {"pending", "publishing"}}
Existing(tg) == {a \in Accounts : tg[a].status # "absent"}
Terminal(tg) == {a \in Accounts : tg[a].status \in {"published", "failed", "cancelled"}}

\* the aggregate of section 4.3 over the Targets of the Post
Aggregate(tg) ==
    IF Existing(tg) # Terminal(tg) THEN "publishing"
    ELSE IF \A a \in Existing(tg) : tg[a].status = "published" THEN "published"
    ELSE IF \E a \in Existing(tg) : tg[a].status = "published" THEN "partially_published"
    ELSE "failed"

\* C4: when publish_post finishes and every Target of the Post is terminal, the
\* Post's status is the section 4.3 aggregate of the Targets' statuses.
C4_AggregateCorrect ==
    [][\A t \in TaskIds :
         (TaskFinish(t, TRUE) /\ Existing(targets') = Terminal(targets'))
            => post'.status = Aggregate(targets')]_vars

\* C5: whenever the Post is published, partially_published or failed, that
\* status is the aggregate of the current statuses of all its Targets.
C5_StatusIsAggregate ==
    (post.status \in {"published", "partially_published", "failed"}
       /\ Existing(targets) # {})
        => post.status = Aggregate(targets)

\* C6: publish_post never writes published, partially_published or failed to
\* a Post that still has a pending or publishing Target.
C6_NoFinalStatusWhileOpen ==
    [][\A t \in TaskIds :
         (TaskFinish(t, TRUE) \/ TaskFinish(t, FALSE)) => Open(targets') = {}]_vars

\* C7: a Target that is published or failed never goes back to pending,
\* scheduled or publishing.
C7_MonotonicStatus ==
    [][\A a \in Accounts :
         targets[a].status \in {"published", "failed"}
            => targets'[a].status \notin {"pending", "scheduled", "publishing"}]_vars

\* the delays in seconds before the 1st, 2nd and 3rd retry
BackoffSeconds == <<60, 120, 240>>

\* C8: the task is retried after 60s, 120s and 240s, is not started before the
\* delay has passed, and its 4th failure is not retried but marks the Post failed.
C8_BackoffGrowth ==
    [][\A t \in TaskIds :
         /\ tasks'[t].retries # tasks[t].retries /\ tasks[t].pc # "idle"
               => /\ tasks[t].retries < 3
                  /\ tasks'[t].retries = tasks[t].retries + 1
                  /\ tasks'[t].pc = "queued"
                  /\ tasks'[t].countdown = BackoffSeconds[tasks'[t].retries]
                  /\ tasks'[t].eta = now + BackoffSeconds[tasks'[t].retries]
         /\ (TaskFinish(t, FALSE) /\ tasks[t].retries = 3)
               => tasks'[t].pc = "dead" /\ post'.status = "failed"
         /\ (tasks[t].pc = "queued" /\ tasks'[t].pc = "loop")
               => tasks[t].eta <= now]_vars

\* a task used its three retries and died on the 4th failure
C8_Witness ==
    \E t \in TaskIds :
        /\ tasks[t].pc = "dead"
        /\ tasks[t].retries = 3
        /\ tasks[t].countdown = 240
        /\ post.status = "failed"

\* C9: a Target whose gateway call fails with a TransientError while
\* retry_count < max_retries goes back to pending, with retry_count incremented
\* and next_retry_at = now + base_delay * 2^retry_count.
C9_TransientRetried ==
    [][\A t \in TaskIds :
         (TaskCompleteTarget(t, "transient", TRUE)
            /\ tasks[t].target.retry_count < tasks[t].target.max_retries)
            => LET a == CurAccount(t)
               IN /\ targets'[a].status = "pending"
                  /\ targets'[a].retry_count = targets[a].retry_count + 1
                  /\ targets'[a].next_retry_at =
                        now + RetryBase * (2 ^ targets[a].retry_count)]_vars

\* C10: a retried publish_post makes no gateway call for a Target that failed
\* with a ValidationError or a PlatformRejection.
C10_TerminalNotRetried ==
    [][\A t \in TaskIds :
         (tasks[t].retries > 0 /\ TaskBeginTarget(t))
            => ~(/\ targets[CurAccount(t)].status = "failed"
                 /\ targets[CurAccount(t)].error_message \in {"validation", "rejection"})]_vars

\* C11: when the gateway call of a LinkedIn Target fails with an authentication
\* error, the Account becomes expired and the Target failed, and no later
\* publish_post calls the gateway for an Account that is not connected.
C11_AuthErrorExpiresAccount ==
    [][\A t \in TaskIds :
         /\ (tasks[t].pc = "call" /\ TaskCompleteTarget(t, "auth", TRUE)
               /\ Platform(CurAccount(t)) = "linkedin")
               => /\ accounts'[CurAccount(t)].status = "expired"
                  /\ targets'[CurAccount(t)].status = "failed"
         /\ (TaskBeginTarget(t) /\ Platform(CurAccount(t)) = "linkedin")
               => accounts[CurAccount(t)].status = "connected"]_vars

\* C12: an Instagram Target of a Post without media fails before any request is
\* sent to the platform, with an error_message saying that media is required;
\* the Facebook Target of the same Post is not touched.
C12_MediaRequired ==
    [][\A t \in TaskIds : \A out \in Outcomes :
         (/\ tasks[t].pc = "call"
          /\ Platform(CurAccount(t)) = "instagram"
          /\ tasks[t].post.media_files = 0
          /\ TaskCompleteTarget(t, out, TRUE))
            => /\ GatewayCalls(CurAccount(t), 0, out) = <<>>
               /\ posted' = posted
               /\ targets'.ig.status = "failed"
               /\ targets'.ig.error_message = MediaRequired
               /\ targets'.fb = targets.fb]_vars

\* the Instagram Target failed for lack of media, the Facebook Target is published
C12_Witness ==
    /\ post.media_files = 0
    /\ targets.ig.status = "failed"
    /\ targets.ig.error_message = MediaRequired
    /\ targets.fb.status = "published"

\* C13: neither the scheduler nor publish_post hands an Account that is not
\* connected, or whose posting_enabled is false, to the gateway.
C13_DispatchPreconditions ==
    [][/\ ProcessScheduledPosts
          => \A t \in TaskIds :
               (tasks[t].pc = "idle" /\ tasks'[t].pc = "queued")
                 => \A i \in 1..Len(tasks'[t].accts) :
                      /\ accounts[tasks'[t].accts[i]].status = "connected"
                      /\ accounts[tasks'[t].accts[i]].posting_enabled
       /\ \A t \in TaskIds :
            TaskBeginTarget(t)
              => /\ accounts[CurAccount(t)].status = "connected"
                 /\ accounts[CurAccount(t)].posting_enabled]_vars

\* C14: a cancel request changes only Targets that are still pending: a Target
\* that was publishing, published or failed keeps its status.
C14_CancelOnlyPending ==
    [][(ViewCancel \/ DirectCancel)
          => \A a \in Accounts :
               targets[a].status \in {"publishing", "published", "failed"}
                 => targets'[a].status = targets[a].status]_vars

\* C15: once the Post is published or partially_published, no request handler
\* and no publish_post execution changes its status or its content.
C15_PublishedPostImmutable ==
    [][post.status \in {"published", "partially_published"}
          => /\ post'.status = post.status
             /\ post'.media_files = post.media_files]_vars

\* C16: there is never a second Target for the Post and an Account, and a
\* publish request or a publish_post step that needs the Target of an Account
\* leaves exactly one.
C16_OneTargetPerAccount ==
    [][/\ \A a \in Accounts : targets'[a].rows <= 1
       /\ \A req \in Requests :
            ViewPublish(req) => \A a \in ValidAccounts(req) : targets'[a].rows = 1
       /\ \A t \in TaskIds :
            (tasks[t].pc \in {"loop", "create"} /\ tasks'[t].pc = "call")
               => targets'[CurAccount(t)].rows = 1]_vars

\* a task is about to insert a Target that has been inserted since it looked
C16_Witness ==
    \E t \in TaskIds :
        tasks[t].pc = "create" /\ targets[tasks[t].accts[tasks[t].idx]].rows = 1

\* C17: no operation removes the Target of a Post that still exists.
C17_TargetNeverDeleted ==
    [][\A a \in Accounts : targets[a].rows > 0 => targets'[a].rows > 0]_vars

\* C18: a reconciliation of a Target with the metrics m leaves exactly one
\* Analytics row for it, and leaves that row as it was when it already held m.
C18_IdempotentUpsert ==
    [][\A a \in Accounts : \A m \in Metrics :
         (\/ SyncPostAnalytics(a, m)
          \/ /\ targets[a].status = "published"
             /\ \E S \in SUBSET Accounts : \E mm \in [S -> Metrics] :
                   a \in S /\ mm[a] = m /\ AnalyzePostPerformance(mm))
            => /\ targets'[a].analytics.rows = 1
               /\ (/\ targets[a].analytics.rows = 1
                   /\ targets[a].analytics.reach = m.reach
                   /\ targets[a].analytics.likes = m.likes)
                     => targets'[a].analytics = targets[a].analytics]_vars

\* C19: no Target is left in publishing: once no publish_post task is queued
\* or running, every Target that entered publishing is published or failed.
C19_NoTargetLeftPublishing ==
    (\A t \in TaskIds : tasks[t].pc \in {"idle", "done", "dead"})
        => \A a \in Accounts : targets[a].status # "publishing"

\* C20: for a Post with one image dispatched to the Facebook and the Instagram
\* account, both Targets are publishing while the gateway is called, Facebook
\* takes one request, Instagram takes container creation, one status poll and
\* media_publish, and when both succeeded both Targets and the Post are published.
C20_ScenarioA ==
    [][\A t \in TaskIds :
         /\ (/\ tasks[t].pc = "call"
             /\ tasks[t].accts = <<"fb", "ig">>
             /\ tasks[t].post.media_files = 1
             /\ TaskCompleteTarget(t, "ok", TRUE))
               => /\ CurAccount(t) = "ig"
                       => GatewayCalls("ig", 1, "ok") = <<"media", "status_code", "media_publish">>
                  /\ CurAccount(t) = "fb"
                       => /\ targets.ig.status = "publishing"
                          /\ GatewayCalls("fb", 1, "ok") = <<"feed">>
         /\ (/\ tasks[t].accts = <<"fb", "ig">>
             /\ tasks[t].published_count = 2
             /\ TaskFinish(t, TRUE))
               => /\ post'.status = "published"
                  /\ targets.fb.status = "published"
                  /\ targets.ig.status = "published"]_vars

\* C21: no operation removes the Analytics row of a Target that still exists.
C21_AnalyticsNeverDeleted ==
    [][\A a \in Accounts :
         (targets[a].analytics.rows > 0 /\ targets'[a].rows > 0)
            => targets'[a].analytics.rows > 0]_vars

\* the requests of the adapter call, as a set
Issued == {gateway.calls[i] : i \in 1..Len(gateway.calls)}

\* the adapter made a container for a video file
VideoContainer ==
    \E i \in 1..Len(Items(gateway.adapter, gateway.media)) :
        Items(gateway.adapter, gateway.media)[i] = "video"

\* C22: for video content media_publish is issued only after a poll of the
\* container's status reported it ready, and a wait that ended without
\* readiness ends the publish with an error and without media_publish.
C22_VideoPolledBeforePublish ==
    /\ (VideoContainer /\ "media_publish" \in Issued) => gateway.ready
    /\ (gateway.result = "not_ready") => "media_publish" \notin Issued

CommentFailed == gateway.commented \in CommentResponses \ {"ok"}

\* C24: the first comment is best-effort: once the container is published, a
\* first comment that fails leaves the result of the publish successful with
\* the platform post id of the publication, and the Target is recorded as
\* published with that id.
C24_FirstCommentBestEffort ==
    /\ [](CommentFailed => (gateway.result = "ok" /\ gateway.post_id > 0))
    /\ [][\A t \in TaskIds :
            (PublishToInstagramReturn(t) /\ CommentFailed) =>
                /\ targets'["ig"].status = "published"
                /\ targets'["ig"].platform_post_id = gateway.post_id
                /\ targets'["ig"].error_message = ""]_vars

\* the comment request raised, and the Target was recorded as published
C24_Witness ==
    /\ gateway.commented = "exception"
    /\ gateway.pc = "returned"
    /\ targets["ig"].status = "published"
    /\ targets["ig"].platform_post_id = gateway.post_id

\* the adapter call publishes a carousel: a post of several media files
Carousel == Len(gateway.media) > 1

\* C25: for a carousel one child container is created per media item before
\* the parent container, and the parent before media_publish; when a child
\* fails neither the parent nor media_publish is issued; the parent references
\* exactly the children created.
C25_CarouselOrdering ==
    Carousel =>
        /\ gateway.parent # None =>
              /\ gateway.children = Len(gateway.media)
              /\ gateway.parent = gateway.children
        /\ "media_publish" \in Issued => gateway.parent # None
        /\ (gateway.pc \in {"done", "returned"} /\ gateway.parent = None)
              => "media_publish" \notin Issued

\* C26: the reconciler requests insights only for a published Target with a
\* platform post id, on a connected Account; for a Target that is pending,
\* publishing, failed or cancelled, or without a platform post id, no insights
\* request is made and no Analytics row is written.
C26_InsightsOnlyForPublished ==
    [][\A a \in Accounts :
         (\/ \E m \in Metrics \cup {NoInsights} : SyncPostAnalytics(a, m)
          \/ targets'[a].analytics.rows > targets[a].analytics.rows)
            => /\ targets[a].status = "published"
               /\ targets[a].platform_post_id # 0
               /\ accounts[a].status = "connected"]_vars

C28_AccountStatusOnly ==
    [][\A t \in TaskIds : \A out \in Outcomes : \A saved \in BOOLEAN :
         TaskCompleteTarget(t, out, saved) =>
            \A a \in Accounts :
                \/ accounts'[a] = accounts[a]
                \/ /\ out = "auth"
                   /\ accounts'[a] = [accounts[a] EXCEPT !.status = "expired"]]_vars

\* the Target of account a is deferred for a retry whose time has come
RetryDue(a) ==
    /\ targets[a].status = "pending"
    /\ targets[a].next_retry_at # None
    /\ targets[a].next_retry_at <= now

\* C29: a Target with status pending and next_retry_at <= now is selected by
\* a tick of the scheduler and handed to the dispatcher: it does not stay
\* deferred for ever.
C29_RetrySweep ==
    \A a \in Accounts : RetryDue(a) ~> ~RetryDue(a)

\* C30: a tick of the scheduler dispatches the Post only when its status is
\* scheduled and its scheduled_at is not in the future, and a tick that finds
\* the Post due with at least one Target queues a publish_post task for all of
\* its Targets.
C30_DueSelection ==
    [][/\ handoffs' > handoffs =>
            /\ post.status = "scheduled"
            /\ post.scheduled_at # None
            /\ post.scheduled_at <= now
       /\ (ProcessScheduledPosts /\ \E a \in Accounts : targets[a].rows > 0) =>
            /\ handoffs' = handoffs + 1
            /\ \E t \in TaskIds :
                  /\ tasks[t].pc = "idle"
                  /\ tasks'[t].pc = "queued"
                  /\ tasks'[t].eta = now
                  /\ tasks'[t].accts =
                        Ordered({a \in Accounts : targets[a].rows > 0})]_vars

\* the scheduler queued the task of a Post whose scheduled_at has come
C30_Witness ==
    /\ handoffs = 1
    /\ post.status = "scheduled"
    /\ post.scheduled_at = now
    /\ \E t \in TaskIds : tasks[t].pc = "queued" /\ tasks[t].accts # <<>>

\* the publish_post task t is working through its list of accounts
InBatch(t) == tasks[t].pc \in {"loop", "call", "create"}

\* C31: the targets of one batch are dispatched independently. The task takes
\* the accounts of its list one by one, each after an attempt on the one
\* before (a gateway call that returned, or an account that was not found),
\* and ends the batch only behind the last one; the attempt on one account
\* leaves the target of every other account as it was, and what it records
\* for its own target is the answer of its own gateway call, whatever was
\* counted for the accounts before it.
C31_IndependentDispatch ==
    /\ [](\A t \in TaskIds :
            InBatch(t) => tasks[t].idx \in 1..(Len(tasks[t].accts) + 1))
    /\ [][\A t \in TaskIds :
            /\ (InBatch(t) /\ tasks'[t].idx # tasks[t].idx)
                 => /\ tasks'[t].idx = tasks[t].idx + 1
                    /\ tasks[t].idx <= Len(tasks[t].accts)
                    /\ tasks'[t].accts = tasks[t].accts
                    /\ \/ tasks[t].pc = "call"
                       \/ accounts[CurAccount(t)].status = "none"
            /\ (InBatch(t) /\ ~InBatch(t)')
                 => tasks[t].idx = Len(tasks[t].accts) + 1
            /\ \A out \in Outcomes : \A saved \in BOOLEAN :
                 TaskCompleteTarget(t, out, saved)
                 => /\ \A b \in Accounts \ {CurAccount(t)} : targets'[b] = targets[b]
                    /\ saved => targets'[CurAccount(t)].status
                                  = (IF out = "ok" THEN "published" ELSE "failed")
            /\ TaskAccountMissing(t) => targets' = targets]_vars

\* a batch of three ended: the first account failed at the gateway, the second
\* was not found, the save of the third raised, and all three were attempted
C31_Witness ==
    \E t \in TaskIds :
        /\ tasks[t].pc = "done"
        /\ Len(tasks[t].accts) = 3
        /\ tasks[t].idx = 4
        /\ targets["fb"].status = "failed"
        /\ accounts["ig"].status = "none"
        /\ targets["li"].status = "publishing"
        /\ quota.faults = 0

\* C32: every failure surfaces as the error_message of a Target. A failed
\* Target has an error_message, a published Target has none, and every
\* failure the publish_post task counts for an account of its list is
\* recorded, with its message, on the Target of that account.
C32_FailureSurfaces ==
    /\ [](\A a \in Accounts :
            /\ targets[a].status = "failed" => targets[a].error_message # ""
            /\ targets[a].status = "published" => targets[a].error_message = "")
    /\ [][\A t \in TaskIds :
            (InBatch(t) /\ tasks'[t].failed_count > tasks[t].failed_count)
            => /\ targets'[CurAccount(t)].status = "failed"
               /\ targets'[CurAccount(t)].error_message # ""]_vars

\* the Target of account a was cancelled and the Post has not been scheduled
\* since: cancel clears scheduled_at, schedule sets it
CancelledFor(a) == post.scheduled_at = None /\ targets[a].status = "cancelled"

\* C33: after a Cancel of a scheduled Post no gateway publish call is made for
\* a Target of the Post unless the Post is scheduled again; a publish_post
\* task the scheduler queued before the Cancel does not take a cancelled
\* Target to the gateway.
C33_CancelStopsQueuedTask ==
    [][\A t \in TaskIds : TaskBeginTarget(t) => ~CancelledFor(CurAccount(t))]_vars

\* C34: an Account that an auth failure has set to expired stays expired until
\* it is connected anew or its token is refreshed; no save of a copy of the
\* Account that was loaded before the failure sets it back to connected.
C34_ExpiredUntilReconnect ==
    [][\A a \in Accounts :
          (accounts[a].status = "expired" /\ accounts'[a].status # "expired")
          => (Reconnect(a) \/ RefreshToken(a))]_vars

\* C35: a Target becomes published only when a gateway call for it returned
\* success, that is when the platform of its Account took a post, whatever
\* that platform is.
C35_PublishedMeansPosted ==
    [][\A a \in Accounts :
          (targets[a].status # "published" /\ targets'[a].status = "published")
          => posted'[a] = posted[a] + 1]_vars

\* C36: a Target has a platform_post_id exactly when it is published.
C36_PostIdIffPublished ==
    \A a \in Accounts :
        targets[a].status = "published" <=> targets[a].platform_post_id # 0

\* C37: a Post that is published or partially published has its published_at
\* set, so that the reconciler, which selects the Targets of an Account by the
\* published_at of their Post, finds every published Target; a failed Post
\* has no published_at.
C37_PublishedAtSet ==
    /\ post.status \in {"published", "partially_published"} => post.published_at # None
    /\ post.status = "failed" => post.published_at = None

\* the Post has no Target
NoTargets == \A a \in Accounts : targets[a].rows = 0

\* C38: a scheduler tick that finds a due Post without Targets marks the Post
\* failed and queues no publish_post task for it, and the Post is then not
\* due for the ticks that follow.
C38_OrphanMarkedFailed ==
    [][(ProcessScheduledPosts /\ NoTargets)
        => /\ post'.status = "failed"
           /\ tasks' = tasks
           /\ handoffs' = handoffs
           /\ targets' = targets
           /\ ~Due(post)']_vars

\* a Post without Targets was failed by a tick, and no task was ever queued
C38_Witness ==
    /\ post.status = "failed"
    /\ NoTargets
    /\ \A t \in TaskIds : tasks[t].pc = "idle"

\* C39: a schedule request is carried out only with a scheduled_at in the
\* future and at least one requested account that is connected with posting
\* enabled, and it leaves the Post scheduled for that instant with at least one
\* Target; any other schedule request changes nothing.
C39_ScheduleValidated ==
    [][\A req \in Requests : \A at \in Times :
          (ViewSchedule(req, at) \/ DirectSchedule(req, at))
          => /\ at > now
             /\ ValidAccounts(req) # {}
             /\ post'.status = "scheduled"
             /\ post'.scheduled_at = at
             /\ ~NoTargets']_vars
====
